---- MODULE Spec2Model ----
(***************************************************************************)
(* State-machine model of the two edge functions of interview_gpt:         *)
(*   src/ai-orchestrator-function.ts  (provider routing, breaker, usage)   *)
(*   src/credit-monitor-function.ts   (check / reset / query of credits)   *)
(* Every await of the source is one step; the code between two awaits is   *)
(* executed atomically with the await that precedes it.                    *)
(***************************************************************************)
EXTENDS Integers, Sequences, FiniteSets, TLC

VARIABLES
    ai_models,          \* table ai_models: codename -> row
    ai_usage_tracking,  \* table ai_usage_tracking: sequence of inserted rows
    env,                \* which credentials Deno.env holds
    now,                \* wall clock, in ticks
    req,                \* the orchestrator request in flight
    mon,                \* the credit-monitor request in flight
    trk,                \* concurrent trackUsage callers
    nreq,               \* orchestrator requests accepted so far
    nmon                \* credit-monitor requests accepted so far

vars == <<ai_models, ai_usage_tracking, env, now, req, mon, trk, nreq, nmon>>

-----------------------------------------------------------------------------
(* Bounds of the model *)

MaxRequests == 1
MaxMonitorRuns == 1
MaxTime == 5
MaxQuestionNumber == 2
NumTrackers == 3
MaxAdd == 2
MaxFallbackNumber == 11

-----------------------------------------------------------------------------
(* Providers, credentials and time scale *)

Codenames == {"Orion", "Titan", "Nova", "Athena", "Vox", "Aether", "Echo"}

QuestionModels == {"Orion", "Titan", "Nova"}

SpeechModels == {"Vox", "Aether"}

\* The priority order the spec fixes for each capability.
QuestionPriority == <<"Orion", "Titan", "Nova">>

SpeechPriority == <<"Vox", "Aether">>

\* .order('codename')
ModelsByCodename == <<"Aether", "Athena", "Echo", "Nova", "Orion", "Titan", "Vox">>

ApiKeys == {"GROQ_API_KEY", "MISTRAL_API_KEY", "ANTHROPIC_API_KEY",
            "ELEVENLABS_API_KEY", "AZURE_SPEECH_KEY"}

\* 1000 * 60 * 60 * 24 ms, in ticks
TicksPerDay == 2

\* a calendar month, in ticks
TicksPerMonth == 4

-----------------------------------------------------------------------------
(* Sequences *)

\* every order in which a store may return the rows of the set S
Orderings(S) ==
    {f \in [1..Cardinality(S) -> S] : \A x \in S : \E k \in 1..Cardinality(S) : f[k] = x}

\* the rows of the set S in the order of the sequence order
InOrder(order, S) ==
    SelectSeq(order, LAMBDA c : c \in S)

Range(s) == {s[k] : k \in DOMAIN s}

-----------------------------------------------------------------------------
(* The store: tables ai_models and ai_usage_tracking *)

\* mutant: the eligibility read without .eq('credit_status', true)
getAvailableModels_NoStatusFilter(tbl, modelNames) ==
    Orderings(modelNames)

\* .from('ai_models').select('*').in('codename', modelNames).eq('credit_status', true)
\* No ORDER BY: the rows come back in an order the store chooses.
getAvailableModels(tbl, modelNames) ==
    Orderings({c \in modelNames : tbl[c].credit_status})

\* .select('credit_status').eq('codename', codename).single()
isModelAvailable(tbl, codename) ==
    tbl[codename].credit_status

\* mutant: the breaker stamps last_checked and leaves credit_status alone
markModelUnavailable_NoFlip(tbl, codename, t) ==
    [tbl EXCEPT ![codename].last_checked = t]

\* .update({ credit_status: false, last_checked: now }).eq('codename', codename)
markModelUnavailable(tbl, codename, t) ==
    [tbl EXCEPT ![codename].credit_status = FALSE,
                ![codename].last_checked = t]

\* the row trackUsage inserts into ai_usage_tracking
UsageRow(modelCodename, sessionId, requests, tokens) ==
    [model_codename |-> modelCodename,
     session_id     |-> sessionId,
     requests_made  |-> requests,
     tokens_used    |-> tokens]

\* the arguments trackUsage hands to rpc('update_model_usage')
UsageRpcArgs(modelCodename, requests, tokens) ==
    [model_name      |-> modelCodename,
     requests_to_add |-> requests,
     tokens_to_add   |-> tokens]

\* a procedure that stores the increment in place of the sum
update_model_usage_Overwrite(tbl, args) ==
    [tbl EXCEPT
        ![args.model_name].current_daily_usage   = args.requests_to_add,
        ![args.model_name].current_monthly_usage = args.requests_to_add]

\* The stored procedure update_model_usage: one server-side statement that
\* adds the requests to both usage counters of the row.
update_model_usage(tbl, args) ==
    [tbl EXCEPT
        ![args.model_name].current_daily_usage   = @ + args.requests_to_add,
        ![args.model_name].current_monthly_usage = @ + args.requests_to_add]

\* .select('codename, credit_status, ...').order('codename')
getModelStatus(tbl) ==
    [k \in 1..Len(ModelsByCodename) |->
        LET c == ModelsByCodename[k] IN
        [codename              |-> c,
         credit_status         |-> tbl[c].credit_status,
         current_daily_usage   |-> tbl[c].current_daily_usage,
         current_monthly_usage |-> tbl[c].current_monthly_usage,
         daily_limit           |-> tbl[c].daily_limit,
         monthly_limit         |-> tbl[c].monthly_limit]]

-----------------------------------------------------------------------------
(* Fallback content *)

questions ==
    <<"Tell me about a challenging project you've worked on recently.",
      "How do you handle working under pressure and tight deadlines?",
      "What motivates you in your professional work?",
      "Describe a time when you had to learn something new quickly.",
      "What are your greatest professional strengths?">>

\* mutant: the index is not shifted to 0-based
getFallbackQuestion_OffByOne(context) ==
    questions[(context.questionNumber % Len(questions)) + 1]

\* mutant: a questionNumber past the list takes its last item
getFallbackQuestion_Clamped(context) ==
    questions[IF context.questionNumber > Len(questions)
              THEN Len(questions)
              ELSE context.questionNumber]

getFallbackQuestion(context) ==
    questions[((context.questionNumber - 1) % Len(questions)) + 1]

Response(status, body) == [status |-> status, body |-> body]

getFallbackEvaluation(context) ==
    Response(200,
        [evaluation |-> "Response received and noted. Continue with the interview.",
         usedModel  |-> "Fallback",
         scores     |-> [clarity |-> 7, confidence |-> 7, content |-> 7, tone |-> 7]])

-----------------------------------------------------------------------------
(* Provider adapters: one network call, which returns a payload or throws *)

Thrown == [ok |-> FALSE, value |-> ""]

Returned(v) == [ok |-> TRUE, value |-> v]

\* callGroqAPI, callMistralAPI, callLocalModel: the text of the provider's
\* answer, which the provider may leave empty.
TextResults == {Thrown, Returned(""), Returned("Generated interview question")}

\* evaluateWithAthena sends ANTHROPIC_API_KEY as its credential: without
\* the key the provider refuses the call.
AthenaResults(e) ==
    IF "ANTHROPIC_API_KEY" \in e
    THEN {Thrown, Returned("Athena evaluation")}
    ELSE {Thrown}

\* callElevenLabsAPI, callAzureTTS: a data URL, never empty
SpeechResults == {Thrown, Returned("data:audio/mpeg;base64,AAAA")}

\* callLocalSTT
TranscriptResults == {Thrown, Returned(""), Returned("transcript")}

\* the branch of the loop body of generateInterviewQuestion a row takes
QuestionAdapter(codename, e) ==
    IF codename = "Orion" /\ "GROQ_API_KEY" \in e THEN "callGroqAPI"
    ELSE IF codename = "Titan" /\ "MISTRAL_API_KEY" \in e THEN "callMistralAPI"
    ELSE IF codename = "Nova" THEN "callLocalModel"
    ELSE "none"

\* the branch of the loop body of generateSpeech a row takes
SpeechAdapter(codename, e) ==
    IF codename = "Vox" /\ "ELEVENLABS_API_KEY" \in e THEN "callElevenLabsAPI"
    ELSE IF codename = "Aether" /\ "AZURE_SPEECH_KEY" \in e THEN "callAzureTTS"
    ELSE "none"

\* The for loop of generateInterviewQuestion from position k on: the first
\* row whose loop body calls an adapter (Len(rows) + 1 when the loop runs out).
\* Rows that take no branch are passed without an await.
NextQuestionCall(rows, k, e) ==
    LET calls == {j \in k..Len(rows) : QuestionAdapter(rows[j], e) # "none"}
    IN  IF calls = {} THEN Len(rows) + 1
        ELSE CHOOSE j \in calls : \A h \in calls : j <= h

\* the same for the for loop of generateSpeech
NextSpeechCall(rows, k, e) ==
    LET calls == {j \in k..Len(rows) : SpeechAdapter(rows[j], e) # "none"}
    IN  IF calls = {} THEN Len(rows) + 1
        ELSE CHOOSE j \in calls : \A h \in calls : j <= h

-----------------------------------------------------------------------------
(* Orchestrator requests *)

Actions == {"generate_question", "process_audio", "generate_speech",
            "evaluate_response", "get_model_status"}

NoContext == [sessionId |-> "", questionNumber |-> 0, userResponse |-> ""]

\* the InterviewContext values a request may carry
Contexts(action) ==
    [sessionId      : {"session-1"},
     questionNumber : IF action = "generate_question" THEN 1..MaxQuestionNumber ELSE {1},
     userResponse   : {"", "My answer"}]

NoResponse == Response(0, [none |-> TRUE])

NoTrack == [modelCodename |-> "", sessionId |-> "", requests |-> 0, tokens |-> 0]

IdleReq ==
    [pc              |-> "idle",
     action          |-> "none",
     context         |-> NoContext,
     availableModels |-> <<>>,      \* rows of the eligibility read, by codename
     i               |-> 0,         \* position of the for loop in availableModels
     question        |-> "",
     usedModel       |-> "",
     evaluation      |-> "null",
     track           |-> NoTrack,   \* arguments of the trackUsage call in progress
     after           |-> "none",    \* where trackUsage returns to
     pending         |-> NoResponse,\* the response built after trackUsage returns
     attempts        |-> <<>>,      \* history: adapter calls made, in order
     store0          |-> <<>>,      \* history: ai_models when the request arrived
     log0            |-> <<>>,      \* history: ai_usage_tracking when it arrived
     response        |-> NoResponse]

Attempt(codename, result) == [codename |-> codename, ok |-> result.ok, value |-> result.value]

\* Deno.serve: switch (action)
EntryPoint(action) ==
    CASE action = "generate_question" -> "gq_getAvailableModels"
      [] action = "process_audio"     -> "pa_isModelAvailable"
      [] action = "generate_speech"   -> "gs_getAvailableModels"
      [] action = "evaluate_response" -> "ev_isModelAvailable"
      [] action = "get_model_status"  -> "ms_getModelStatus"

\* Deno.serve: catch (error)
ErrorResponse(message) == Response(500, [error |-> message])

Serve ==
    /\ req.pc \in {"idle", "done"}
    /\ nreq < MaxRequests
    /\ \E action \in Actions : \E context \in Contexts(action) :
          req' = [IdleReq EXCEPT !.pc = EntryPoint(action),
                                 !.action = action,
                                 !.context = context,
                                 !.store0 = ai_models,
                                 !.log0 = ai_usage_tracking]
    /\ nreq' = nreq + 1
    /\ UNCHANGED <<ai_models, ai_usage_tracking, env, now, mon, trk, nmon>>

ServeUnknownAction ==
    /\ req.pc \in {"idle", "done"}
    /\ nreq < MaxRequests
    /\ req' = [IdleReq EXCEPT !.pc = "done",
                              !.action = "unknown",
                              !.store0 = ai_models,
                              !.log0 = ai_usage_tracking,
                              !.response = ErrorResponse("Unknown action")]
    /\ nreq' = nreq + 1
    /\ UNCHANGED <<ai_models, ai_usage_tracking, env, now, mon, trk, nmon>>

\* trackUsage(...), entered from handler state r; the caller resumes at after
CallTrackUsage(r, modelCodename, tokens, after, pending) ==
    [r EXCEPT !.pc = "tu_insert",
              !.track = [modelCodename |-> modelCodename,
                         sessionId     |-> r.context.sessionId,
                         requests      |-> 1,
                         tokens        |-> tokens],
              !.after = after,
              !.pending = pending]

\* await supabase.from('ai_usage_tracking').insert(...)
TrackUsageInsert ==
    /\ req.pc = "tu_insert"
    /\ ai_usage_tracking' = Append(ai_usage_tracking,
          UsageRow(req.track.modelCodename, req.track.sessionId,
                   req.track.requests, req.track.tokens))
    /\ req' = [req EXCEPT !.pc = "tu_rpc"]
    /\ UNCHANGED <<ai_models, env, now, mon, trk, nreq, nmon>>

\* await supabase.rpc('update_model_usage', ...), then back in the caller
TrackUsageRpc ==
    /\ req.pc = "tu_rpc"
    /\ ai_models' = update_model_usage(ai_models,
          UsageRpcArgs(req.track.modelCodename, req.track.requests, req.track.tokens))
    /\ req' = IF req.after = "respond"
              THEN [req EXCEPT !.pc = "done", !.response = req.pending]
              ELSE [req EXCEPT !.pc = req.after]
    /\ UNCHANGED <<ai_usage_tracking, env, now, mon, trk, nreq, nmon>>

-----------------------------------------------------------------------------
(* generateInterviewQuestion *)

NoModelsResponse(message, modelNames) ==
    Response(503, [error |-> message, unavailableModels |-> modelNames])

\* if (!question) { question = getFallbackQuestion(context); usedModel = 'Fallback' }
WithFallbackQuestion(r) ==
    IF r.question = ""
    THEN [r EXCEPT !.question = getFallbackQuestion(r.context), !.usedModel = "Fallback"]
    ELSE r

\* mutant: usage is tracked for the fallback question too
TrackQuestionUsage_Always(r) ==
    CallTrackUsage(r, r.usedModel, Len(r.question), "gq_isModelAvailable", NoResponse)

\* if (usedModel !== 'Fallback') await trackUsage(usedModel, sessionId, 1, question.length)
TrackQuestionUsage(r) ==
    IF r.usedModel # "Fallback"
    THEN CallTrackUsage(r, r.usedModel, Len(r.question), "gq_isModelAvailable", NoResponse)
    ELSE [r EXCEPT !.pc = "gq_isModelAvailable"]

\* the code that follows the for loop, up to its next await
AfterQuestionLoop(r) ==
    TrackQuestionUsage(WithFallbackQuestion(r))

\* mutant: a candidate whose adapter failed is called a second time before
\* the loop moves on
QuestionLoop_RetryOnce(r, k, e) ==
    LET j == NextQuestionCall(r.availableModels, k, e)
        calls == IF k > 1
                 THEN {a \in DOMAIN r.attempts :
                          r.attempts[a].codename = r.availableModels[k - 1]}
                 ELSE {}
    IN  IF Cardinality(calls) = 1
        THEN [r EXCEPT !.i = k - 1, !.pc = "gq_call"]
        ELSE IF j > Len(r.availableModels)
        THEN AfterQuestionLoop([r EXCEPT !.i = j])
        ELSE [r EXCEPT !.i = j, !.pc = "gq_call"]

\* the for loop, resumed at position k
QuestionLoop(r, k, e) ==
    LET j == NextQuestionCall(r.availableModels, k, e)
    IN  IF j > Len(r.availableModels)
        THEN AfterQuestionLoop([r EXCEPT !.i = j])
        ELSE [r EXCEPT !.i = j, !.pc = "gq_call"]

GQ_getAvailableModels ==
    /\ req.pc = "gq_getAvailableModels"
    /\ \E rows \in getAvailableModels(ai_models, QuestionModels) :
          req' = IF Len(rows) = 0
                 THEN [req EXCEPT !.pc = "done",
                                  !.response = NoModelsResponse("No AI models available",
                                                                <<"Orion", "Titan", "Nova">>)]
                 ELSE QuestionLoop([req EXCEPT !.availableModels = rows], 1, env)
    /\ UNCHANGED <<ai_models, ai_usage_tracking, env, now, mon, trk, nreq, nmon>>

\* question = await callGroqAPI / callMistralAPI / callLocalModel; break  -- or catch
GQ_call ==
    /\ req.pc = "gq_call"
    /\ \E result \in TextResults :
          LET codename == req.availableModels[req.i]
              r == [req EXCEPT !.attempts = Append(@, Attempt(codename, result))]
          IN  req' = IF result.ok
                     THEN AfterQuestionLoop([r EXCEPT !.question = result.value,
                                                      !.usedModel = codename])
                     ELSE [r EXCEPT !.pc = "gq_markModelUnavailable"]
    /\ UNCHANGED <<ai_models, ai_usage_tracking, env, now, mon, trk, nreq, nmon>>

\* catch: await markModelUnavailable(model.codename); continue
GQ_markModelUnavailable ==
    /\ req.pc = "gq_markModelUnavailable"
    /\ ai_models' = markModelUnavailable(ai_models, req.availableModels[req.i], now)
    /\ req' = QuestionLoop(req, req.i + 1, env)
    /\ UNCHANGED <<ai_usage_tracking, env, now, mon, trk, nreq, nmon>>

\* const athenaAvailable = await isModelAvailable('Athena')
GQ_isModelAvailable ==
    /\ req.pc = "gq_isModelAvailable"
    /\ req' = IF isModelAvailable(ai_models, "Athena") /\ req.context.userResponse # ""
              THEN [req EXCEPT !.pc = "gq_evaluateWithAthena"]
              ELSE [req EXCEPT !.pc = "gq_getModelStatus"]
    /\ UNCHANGED <<ai_models, ai_usage_tracking, env, now, mon, trk, nreq, nmon>>

\* mutant: the call is not wrapped in try/catch, a failure reaches Deno.serve
GQ_evaluateWithAthena_Uncaught ==
    /\ req.pc = "gq_evaluateWithAthena"
    /\ \E result \in AthenaResults(env) :
          LET r == [req EXCEPT !.attempts = Append(@, Attempt("Athena", result))]
          IN  req' = IF result.ok
                     THEN [r EXCEPT !.pc = "gq_getModelStatus",
                                    !.evaluation = result.value]
                     ELSE [r EXCEPT !.pc = "done",
                                    !.response = ErrorResponse("Athena API error")]
    /\ UNCHANGED <<ai_models, ai_usage_tracking, env, now, mon, trk, nreq, nmon>>

\* evaluation = await evaluateWithAthena(...)  -- a failure is logged and dropped
GQ_evaluateWithAthena ==
    /\ req.pc = "gq_evaluateWithAthena"
    /\ \E result \in AthenaResults(env) :
          req' = [req EXCEPT !.pc = "gq_getModelStatus",
                             !.attempts = Append(@, Attempt("Athena", result)),
                             !.evaluation = IF result.ok THEN result.value ELSE "null"]
    /\ UNCHANGED <<ai_models, ai_usage_tracking, env, now, mon, trk, nreq, nmon>>

\* return { question, usedModel, evaluation, modelStatus: await getModelStatus() }
GQ_getModelStatus ==
    /\ req.pc = "gq_getModelStatus"
    /\ req' = [req EXCEPT
          !.pc = "done",
          !.response = Response(200,
              [question    |-> req.question,
               usedModel   |-> req.usedModel,
               evaluation  |-> req.evaluation,
               modelStatus |-> getModelStatus(ai_models)])]
    /\ UNCHANGED <<ai_models, ai_usage_tracking, env, now, mon, trk, nreq, nmon>>

-----------------------------------------------------------------------------
(* processAudioInput *)

PA_isModelAvailable ==
    /\ req.pc = "pa_isModelAvailable"
    /\ req' = IF ~isModelAvailable(ai_models, "Echo")
              THEN [req EXCEPT !.pc = "done",
                               !.response = NoModelsResponse("Speech recognition unavailable",
                                                             <<"Echo">>)]
              ELSE [req EXCEPT !.pc = "pa_call"]
    /\ UNCHANGED <<ai_models, ai_usage_tracking, env, now, mon, trk, nreq, nmon>>

\* ECHO_ENDPOINT is never empty: transcript = await callLocalSTT(context.audioData)
PA_call ==
    /\ req.pc = "pa_call"
    /\ \E result \in TranscriptResults :
          LET r == [req EXCEPT !.attempts = Append(@, Attempt("Echo", result))]
          IN  req' = IF result.ok
                     THEN CallTrackUsage(r, "Echo", Len(result.value), "respond",
                              Response(200, [transcript |-> result.value,
                                             usedModel  |-> "Echo"]))
                     ELSE [r EXCEPT !.pc = "pa_markModelUnavailable"]
    /\ UNCHANGED <<ai_models, ai_usage_tracking, env, now, mon, trk, nreq, nmon>>

\* catch: await markModelUnavailable('Echo'); throw error  -- caught by Deno.serve
PA_markModelUnavailable ==
    /\ req.pc = "pa_markModelUnavailable"
    /\ ai_models' = markModelUnavailable(ai_models, "Echo", now)
    /\ req' = [req EXCEPT !.pc = "done", !.response = ErrorResponse("Local STT error")]
    /\ UNCHANGED <<ai_usage_tracking, env, now, mon, trk, nreq, nmon>>

-----------------------------------------------------------------------------
(* generateSpeech *)

\* mutant: the exhausted loop answers like the empty candidate list
AllFailedResponse_Unavailable ==
    Response(503, [error |-> "All TTS models failed", useBrowserTTS |-> TRUE])

AllFailedResponse ==
    Response(200, [error |-> "All TTS models failed", useBrowserTTS |-> TRUE])

\* the for loop, resumed at position k
SpeechLoop(r, k, e) ==
    LET j == NextSpeechCall(r.availableModels, k, e)
    IN  IF j > Len(r.availableModels)
        THEN [r EXCEPT !.i = j, !.pc = "done", !.response = AllFailedResponse]
        ELSE [r EXCEPT !.i = j, !.pc = "gs_call"]

GS_getAvailableModels ==
    /\ req.pc = "gs_getAvailableModels"
    /\ \E rows \in getAvailableModels(ai_models, SpeechModels) :
          req' = IF Len(rows) = 0
                 THEN [req EXCEPT !.pc = "done",
                                  !.response = NoModelsResponse("No TTS models available",
                                                                <<"Vox", "Aether">>)]
                 ELSE SpeechLoop([req EXCEPT !.availableModels = rows], 1, env)
    /\ UNCHANGED <<ai_models, ai_usage_tracking, env, now, mon, trk, nreq, nmon>>

\* audioUrl = await callElevenLabsAPI / callAzureTTS; await trackUsage; return
GS_call ==
    /\ req.pc = "gs_call"
    /\ \E result \in SpeechResults :
          LET codename == req.availableModels[req.i]
              r == [req EXCEPT !.attempts = Append(@, Attempt(codename, result))]
          IN  req' = IF result.ok
                     THEN CallTrackUsage(r, codename, Len(req.context.userResponse), "respond",
                              Response(200, [audioUrl  |-> result.value,
                                             usedModel |-> codename]))
                     ELSE [r EXCEPT !.pc = "gs_markModelUnavailable"]
    /\ UNCHANGED <<ai_models, ai_usage_tracking, env, now, mon, trk, nreq, nmon>>

\* catch: await markModelUnavailable(model.codename); continue
GS_markModelUnavailable ==
    /\ req.pc = "gs_markModelUnavailable"
    /\ ai_models' = markModelUnavailable(ai_models, req.availableModels[req.i], now)
    /\ req' = SpeechLoop(req, req.i + 1, env)
    /\ UNCHANGED <<ai_usage_tracking, env, now, mon, trk, nreq, nmon>>

-----------------------------------------------------------------------------
(* evaluateResponse *)

EV_isModelAvailable ==
    /\ req.pc = "ev_isModelAvailable"
    /\ req' = IF ~isModelAvailable(ai_models, "Athena") \/ "ANTHROPIC_API_KEY" \notin env
              THEN [req EXCEPT !.pc = "done", !.response = getFallbackEvaluation(req.context)]
              ELSE [req EXCEPT !.pc = "ev_call"]
    /\ UNCHANGED <<ai_models, ai_usage_tracking, env, now, mon, trk, nreq, nmon>>

\* evaluation = await evaluateWithAthena(...); await trackUsage; return
EV_call ==
    /\ req.pc = "ev_call"
    /\ \E result \in AthenaResults(env) :
          LET r == [req EXCEPT !.attempts = Append(@, Attempt("Athena", result))]
          IN  req' = IF result.ok
                     THEN CallTrackUsage(r, "Athena", Len(req.context.userResponse), "respond",
                              Response(200, [evaluation |-> result.value,
                                             usedModel  |-> "Athena"]))
                     ELSE [r EXCEPT !.pc = "ev_markModelUnavailable"]
    /\ UNCHANGED <<ai_models, ai_usage_tracking, env, now, mon, trk, nreq, nmon>>

\* catch: await markModelUnavailable('Athena'); return getFallbackEvaluation(context)
EV_markModelUnavailable ==
    /\ req.pc = "ev_markModelUnavailable"
    /\ ai_models' = markModelUnavailable(ai_models, "Athena", now)
    /\ req' = [req EXCEPT !.pc = "done", !.response = getFallbackEvaluation(req.context)]
    /\ UNCHANGED <<ai_usage_tracking, env, now, mon, trk, nreq, nmon>>

-----------------------------------------------------------------------------
(* get_model_status *)

MS_getModelStatus ==
    /\ req.pc = "ms_getModelStatus"
    /\ req' = [req EXCEPT !.pc = "done",
                          !.response = Response(200, getModelStatus(ai_models))]
    /\ UNCHANGED <<ai_models, ai_usage_tracking, env, now, mon, trk, nreq, nmon>>

Orchestrator ==
    \/ Serve
    \/ ServeUnknownAction
    \/ TrackUsageInsert
    \/ TrackUsageRpc
    \/ GQ_getAvailableModels
    \/ GQ_call
    \/ GQ_markModelUnavailable
    \/ GQ_isModelAvailable
    \/ GQ_evaluateWithAthena
    \/ GQ_getModelStatus
    \/ PA_isModelAvailable
    \/ PA_call
    \/ PA_markModelUnavailable
    \/ GS_getAvailableModels
    \/ GS_call
    \/ GS_markModelUnavailable
    \/ EV_isModelAvailable
    \/ EV_call
    \/ EV_markModelUnavailable
    \/ MS_getModelStatus

-----------------------------------------------------------------------------
(* Credit monitor: checkAndUpdateCredits, resetCredits, getExhaustedModels *)

\* Math.floor((now - lastDailyReset) / (1000 * 60 * 60 * 24))
daysSinceReset(t, last) == (t - last) \div TicksPerDay

\* getFullYear() * 12 + getMonth()
MonthIndex(t) == t \div TicksPerMonth

\* (now.getFullYear() - last.getFullYear()) * 12 + (now.getMonth() - last.getMonth())
monthsSinceReset(t, last) == MonthIndex(t) - MonthIndex(last)

dailyExceeded(limit, usage) == limit > 0 /\ usage >= limit

monthlyExceeded(limit, usage) == limit > 0 /\ usage >= limit

\* a pass that checks the limits on the counters as read, before the resets
GateEvaluation_LimitBeforeReset(codename, model, t) ==
    LET dailyReset      == daysSinceReset(t, model.last_reset_daily) >= 1
        monthlyReset    == monthsSinceReset(t, model.last_reset_monthly) >= 1
        newDailyUsage   == IF dailyReset THEN 0 ELSE model.current_daily_usage
        newDailyReset   == IF dailyReset THEN t ELSE model.last_reset_daily
        newMonthlyUsage == IF monthlyReset THEN 0 ELSE model.current_monthly_usage
        newMonthlyReset == IF monthlyReset THEN t ELSE model.last_reset_monthly
        dailyEx         == dailyExceeded(model.daily_limit, model.current_daily_usage)
        monthlyEx       == monthlyExceeded(model.monthly_limit, model.current_monthly_usage)
        reEnable        == ~model.credit_status /\ (dailyReset \/ monthlyReset)
        newStatus       == IF dailyEx \/ monthlyEx THEN FALSE
                           ELSE IF reEnable THEN TRUE
                           ELSE model.credit_status
    IN  [needsUpdate |-> dailyReset \/ monthlyReset \/ dailyEx \/ monthlyEx \/ reEnable,
         update      |-> [codename              |-> codename,
                          credit_status         |-> newStatus,
                          current_daily_usage   |-> newDailyUsage,
                          current_monthly_usage |-> newMonthlyUsage,
                          last_reset_daily      |-> newDailyReset,
                          last_reset_monthly    |-> newMonthlyReset,
                          last_checked          |-> t],
         exhausted   |-> IF (dailyEx \/ monthlyEx) /\ model.credit_status
                         THEN <<[codename |-> codename,
                                 reason   |-> IF dailyEx THEN "Daily limit exceeded"
                                              ELSE "Monthly limit exceeded",
                                 usage    |-> IF dailyEx THEN newDailyUsage
                                              ELSE newMonthlyUsage,
                                 limit    |-> IF dailyEx THEN model.daily_limit
                                              ELSE model.monthly_limit]>>
                         ELSE <<>>]

\* a pass that re-enables a disabled provider after any reset, before it
\* looks at the limits
GateEvaluation_ReEnableFirst(codename, model, t) ==
    LET dailyReset      == daysSinceReset(t, model.last_reset_daily) >= 1
        monthlyReset    == monthsSinceReset(t, model.last_reset_monthly) >= 1
        newDailyUsage   == IF dailyReset THEN 0 ELSE model.current_daily_usage
        newDailyReset   == IF dailyReset THEN t ELSE model.last_reset_daily
        newMonthlyUsage == IF monthlyReset THEN 0 ELSE model.current_monthly_usage
        newMonthlyReset == IF monthlyReset THEN t ELSE model.last_reset_monthly
        dailyEx         == dailyExceeded(model.daily_limit, newDailyUsage)
        monthlyEx       == monthlyExceeded(model.monthly_limit, newMonthlyUsage)
        reEnable        == ~model.credit_status /\ (dailyReset \/ monthlyReset)
        newStatus       == IF reEnable THEN TRUE
                           ELSE IF dailyEx \/ monthlyEx THEN FALSE
                           ELSE model.credit_status
    IN  [needsUpdate |-> dailyReset \/ monthlyReset \/ dailyEx \/ monthlyEx \/ reEnable,
         update      |-> [codename              |-> codename,
                          credit_status         |-> newStatus,
                          current_daily_usage   |-> newDailyUsage,
                          current_monthly_usage |-> newMonthlyUsage,
                          last_reset_daily      |-> newDailyReset,
                          last_reset_monthly    |-> newMonthlyReset,
                          last_checked          |-> t],
         exhausted   |-> IF (dailyEx \/ monthlyEx) /\ model.credit_status
                         THEN <<[codename |-> codename,
                                 reason   |-> IF dailyEx THEN "Daily limit exceeded"
                                              ELSE "Monthly limit exceeded",
                                 usage    |-> IF dailyEx THEN newDailyUsage
                                              ELSE newMonthlyUsage,
                                 limit    |-> IF dailyEx THEN model.daily_limit
                                              ELSE model.monthly_limit]>>
                         ELSE <<>>]

\* a pass that lists every provider over a limit, also one disabled before
GateEvaluation_ListsDisabled(codename, model, t) ==
    LET dailyReset      == daysSinceReset(t, model.last_reset_daily) >= 1
        monthlyReset    == monthsSinceReset(t, model.last_reset_monthly) >= 1
        newDailyUsage   == IF dailyReset THEN 0 ELSE model.current_daily_usage
        newDailyReset   == IF dailyReset THEN t ELSE model.last_reset_daily
        newMonthlyUsage == IF monthlyReset THEN 0 ELSE model.current_monthly_usage
        newMonthlyReset == IF monthlyReset THEN t ELSE model.last_reset_monthly
        dailyEx         == dailyExceeded(model.daily_limit, newDailyUsage)
        monthlyEx       == monthlyExceeded(model.monthly_limit, newMonthlyUsage)
        reEnable        == ~model.credit_status /\ (dailyReset \/ monthlyReset)
        newStatus       == IF dailyEx \/ monthlyEx THEN FALSE
                           ELSE IF reEnable THEN TRUE
                           ELSE model.credit_status
    IN  [needsUpdate |-> dailyReset \/ monthlyReset \/ dailyEx \/ monthlyEx \/ reEnable,
         update      |-> [codename              |-> codename,
                          credit_status         |-> newStatus,
                          current_daily_usage   |-> newDailyUsage,
                          current_monthly_usage |-> newMonthlyUsage,
                          last_reset_daily      |-> newDailyReset,
                          last_reset_monthly    |-> newMonthlyReset,
                          last_checked          |-> t],
         exhausted   |-> IF dailyEx \/ monthlyEx
                         THEN <<[codename |-> codename,
                                 reason   |-> IF dailyEx THEN "Daily limit exceeded"
                                              ELSE "Monthly limit exceeded",
                                 usage    |-> IF dailyEx THEN newDailyUsage
                                              ELSE newMonthlyUsage,
                                 limit    |-> IF dailyEx THEN model.daily_limit
                                              ELSE model.monthly_limit]>>
                         ELSE <<>>]

\* a pass that re-enables a disabled provider whether or not a reset occurred
GateEvaluation_ReEnableWithoutReset(codename, model, t) ==
    LET dailyReset      == daysSinceReset(t, model.last_reset_daily) >= 1
        monthlyReset    == monthsSinceReset(t, model.last_reset_monthly) >= 1
        newDailyUsage   == IF dailyReset THEN 0 ELSE model.current_daily_usage
        newDailyReset   == IF dailyReset THEN t ELSE model.last_reset_daily
        newMonthlyUsage == IF monthlyReset THEN 0 ELSE model.current_monthly_usage
        newMonthlyReset == IF monthlyReset THEN t ELSE model.last_reset_monthly
        dailyEx         == dailyExceeded(model.daily_limit, newDailyUsage)
        monthlyEx       == monthlyExceeded(model.monthly_limit, newMonthlyUsage)
        reEnable        == ~model.credit_status
        newStatus       == IF dailyEx \/ monthlyEx THEN FALSE
                           ELSE IF reEnable THEN TRUE
                           ELSE model.credit_status
    IN  [needsUpdate |-> dailyReset \/ monthlyReset \/ dailyEx \/ monthlyEx \/ reEnable,
         update      |-> [codename              |-> codename,
                          credit_status         |-> newStatus,
                          current_daily_usage   |-> newDailyUsage,
                          current_monthly_usage |-> newMonthlyUsage,
                          last_reset_daily      |-> newDailyReset,
                          last_reset_monthly    |-> newMonthlyReset,
                          last_checked          |-> t],
         exhausted   |-> IF (dailyEx \/ monthlyEx) /\ model.credit_status
                         THEN <<[codename |-> codename,
                                 reason   |-> IF dailyEx THEN "Daily limit exceeded"
                                              ELSE "Monthly limit exceeded",
                                 usage    |-> IF dailyEx THEN newDailyUsage
                                              ELSE newMonthlyUsage,
                                 limit    |-> IF dailyEx THEN model.daily_limit
                                              ELSE model.monthly_limit]>>
                         ELSE <<>>]

\* One pass of the for loop of checkAndUpdateCredits over the row model of
\* provider codename, read at time t: whether the row needs an update, the
\* update, and the entries pushed to exhaustedModels.
GateEvaluation(codename, model, t) ==
    LET dailyReset      == daysSinceReset(t, model.last_reset_daily) >= 1
        monthlyReset    == monthsSinceReset(t, model.last_reset_monthly) >= 1
        newDailyUsage   == IF dailyReset THEN 0 ELSE model.current_daily_usage
        newDailyReset   == IF dailyReset THEN t ELSE model.last_reset_daily
        newMonthlyUsage == IF monthlyReset THEN 0 ELSE model.current_monthly_usage
        newMonthlyReset == IF monthlyReset THEN t ELSE model.last_reset_monthly
        dailyEx         == dailyExceeded(model.daily_limit, newDailyUsage)
        monthlyEx       == monthlyExceeded(model.monthly_limit, newMonthlyUsage)
        reEnable        == ~model.credit_status /\ (dailyReset \/ monthlyReset)
        newStatus       == IF dailyEx \/ monthlyEx THEN FALSE
                           ELSE IF reEnable THEN TRUE
                           ELSE model.credit_status
    IN  [needsUpdate |-> dailyReset \/ monthlyReset \/ dailyEx \/ monthlyEx \/ reEnable,
         update      |-> [codename              |-> codename,
                          credit_status         |-> newStatus,
                          current_daily_usage   |-> newDailyUsage,
                          current_monthly_usage |-> newMonthlyUsage,
                          last_reset_daily      |-> newDailyReset,
                          last_reset_monthly    |-> newMonthlyReset,
                          last_checked          |-> t],
         exhausted   |-> IF (dailyEx \/ monthlyEx) /\ model.credit_status
                         THEN <<[codename |-> codename,
                                 reason   |-> IF dailyEx THEN "Daily limit exceeded"
                                              ELSE "Monthly limit exceeded",
                                 usage    |-> IF dailyEx THEN newDailyUsage
                                              ELSE newMonthlyUsage,
                                 limit    |-> IF dailyEx THEN model.daily_limit
                                              ELSE model.monthly_limit]>>
                         ELSE <<>>]

\* The for loop over the rows read, taken by codename (the order of the rows
\* decides only the order of the two lists).
RECURSIVE CheckAll(_, _, _)
CheckAll(models, t, k) ==
    IF k > Len(ModelsByCodename)
    THEN [updates |-> <<>>, exhaustedModels |-> <<>>]
    ELSE LET c    == ModelsByCodename[k]
             g    == GateEvaluation(c, models[c], t)
             rest == CheckAll(models, t, k + 1)
         IN  [updates         |-> (IF g.needsUpdate THEN <<g.update>> ELSE <<>>)
                                      \o rest.updates,
              exhaustedModels |-> g.exhausted \o rest.exhaustedModels]

\* supabase.from('ai_models').update(update).eq('codename', update.codename)
ApplyUpdate(tbl, update) ==
    [tbl EXCEPT ![update.codename] =
        [@ EXCEPT !.credit_status         = update.credit_status,
                  !.current_daily_usage   = update.current_daily_usage,
                  !.current_monthly_usage = update.current_monthly_usage,
                  !.last_reset_daily      = update.last_reset_daily,
                  !.last_reset_monthly    = update.last_reset_monthly,
                  !.last_checked          = update.last_checked]]

\* a reset that zeroes the counters and leaves credit_status alone
resetCredits_KeepsStatus(tbl, t) ==
    [c \in DOMAIN tbl |->
        [tbl[c] EXCEPT !.current_daily_usage   = 0,
                       !.current_monthly_usage = 0,
                       !.last_reset_daily      = t,
                       !.last_reset_monthly    = t,
                       !.last_checked          = t]]

\* supabase.from('ai_models').update({...}).neq('codename', '')
resetCredits(tbl, t) ==
    [c \in DOMAIN tbl |->
        IF c # ""
        THEN [tbl[c] EXCEPT !.current_daily_usage   = 0,
                            !.current_monthly_usage = 0,
                            !.credit_status         = TRUE,
                            !.last_reset_daily      = t,
                            !.last_reset_monthly    = t,
                            !.last_checked          = t]
        ELSE tbl[c]]

\* column original_name of the provisioned rows
original_name(codename) ==
    CASE codename = "Orion"  -> "LLaMA-3.1 70B"
      [] codename = "Titan"  -> "Mixtral 8x7B"
      [] codename = "Nova"   -> "Gemma 7B"
      [] codename = "Athena" -> "Claude Haiku"
      [] codename = "Vox"    -> "ElevenLabs TTS"
      [] codename = "Aether" -> "Azure TTS"
      [] codename = "Echo"   -> "Whisper STT"

\* .select(...).eq('credit_status', false), mapped to the response entries
getExhaustedModels(tbl) ==
    LET rows == SelectSeq(ModelsByCodename, LAMBDA c : ~tbl[c].credit_status)
    IN  [k \in 1..Len(rows) |->
            LET model == tbl[rows[k]] IN
            [codename     |-> rows[k],
             name         |-> original_name(rows[k]),
             dailyUsage   |-> model.current_daily_usage,
             monthlyUsage |-> model.current_monthly_usage,
             dailyLimit   |-> model.daily_limit,
             monthlyLimit |-> model.monthly_limit,
             reason       |-> IF model.daily_limit > 0
                                 /\ model.current_daily_usage >= model.daily_limit
                              THEN "Daily limit exceeded"
                              ELSE "Monthly limit exceeded"]]

MonitorActions == {"check_credits", "reset_credits", "get_exhausted_models"}

IdleMon ==
    [pc              |-> "idle",
     action          |-> "none",
     now             |-> 0,         \* const now = new Date()
     store0          |-> <<>>,      \* history: the store when the request arrived
     models          |-> <<>>,      \* the rows checkAndUpdateCredits read
     exhaustedModels |-> <<>>,
     updates         |-> <<>>,
     k               |-> 0,         \* position of the update loop in updates
     response        |-> NoResponse]

MonitorEntryPoint(action) ==
    CASE action = "check_credits"        -> "cc_select"
      [] action = "reset_credits"        -> "rc_update"
      [] action = "get_exhausted_models" -> "ge_select"

MonitorServe ==
    /\ mon.pc \in {"idle", "done"}
    /\ nmon < MaxMonitorRuns
    /\ \E action \in MonitorActions :
          mon' = [IdleMon EXCEPT !.pc = MonitorEntryPoint(action),
                                 !.action = action,
                                 !.now = now,
                                 !.store0 = ai_models]
    /\ nmon' = nmon + 1
    /\ UNCHANGED <<ai_models, ai_usage_tracking, env, now, req, trk, nreq>>

\* default: throw new Error('Unknown action'), caught by Deno.serve
MonitorServeUnknownAction ==
    /\ mon.pc \in {"idle", "done"}
    /\ nmon < MaxMonitorRuns
    /\ mon' = [IdleMon EXCEPT !.pc = "done",
                              !.action = "unknown",
                              !.now = now,
                              !.store0 = ai_models,
                              !.response = ErrorResponse("Unknown action")]
    /\ nmon' = nmon + 1
    /\ UNCHANGED <<ai_models, ai_usage_tracking, env, now, req, trk, nreq>>

CheckResponse(m) ==
    Response(200, [success         |-> TRUE,
                   exhaustedModels |-> m.exhaustedModels,
                   updatedModels   |-> Len(m.updates),
                   timestamp       |-> m.now])

\* const { data: models } = await supabase.from('ai_models').select('*'),
\* then the for loop over models
CC_select ==
    /\ mon.pc = "cc_select"
    /\ LET checked == CheckAll(ai_models, mon.now, 1)
           m == [mon EXCEPT !.models = ai_models,
                            !.updates = checked.updates,
                            !.exhaustedModels = checked.exhaustedModels,
                            !.k = 1]
       IN  mon' = IF Len(m.updates) = 0
                  THEN [m EXCEPT !.pc = "done", !.response = CheckResponse(m)]
                  ELSE [m EXCEPT !.pc = "cc_update"]
    /\ UNCHANGED <<ai_models, ai_usage_tracking, env, now, req, trk, nreq, nmon>>

\* for (const update of updates) await supabase...update(update)
CC_update ==
    /\ mon.pc = "cc_update"
    /\ ai_models' = ApplyUpdate(ai_models, mon.updates[mon.k])
    /\ mon' = IF mon.k = Len(mon.updates)
              THEN [mon EXCEPT !.pc = "done", !.response = CheckResponse(mon)]
              ELSE [mon EXCEPT !.k = mon.k + 1]
    /\ UNCHANGED <<ai_usage_tracking, env, now, req, trk, nreq, nmon>>

RC_update ==
    /\ mon.pc = "rc_update"
    /\ ai_models' = resetCredits(ai_models, mon.now)
    /\ mon' = [mon EXCEPT !.pc = "done",
                          !.response = Response(200, [success |-> TRUE,
                                                      message |-> "All credits reset"])]
    /\ UNCHANGED <<ai_usage_tracking, env, now, req, trk, nreq, nmon>>

GE_select ==
    /\ mon.pc = "ge_select"
    /\ mon' = [mon EXCEPT !.pc = "done",
                          !.response = Response(200,
                              [exhaustedModels |-> getExhaustedModels(ai_models)])]
    /\ UNCHANGED <<ai_models, ai_usage_tracking, env, now, req, trk, nreq, nmon>>

Monitor ==
    \/ MonitorServe
    \/ MonitorServeUnknownAction
    \/ CC_select
    \/ CC_update
    \/ RC_update
    \/ GE_select

\* Time passes between requests: a request is short against a tick.
Tick ==
    /\ req.pc \in {"idle", "done"}
    /\ mon.pc \in {"idle", "done"}
    /\ now < MaxTime
    /\ now' = now + 1
    /\ UNCHANGED <<ai_models, ai_usage_tracking, env, req, mon, trk, nreq, nmon>>

-----------------------------------------------------------------------------
(* Initial states *)

\* The provisioned limits (0: unlimited): every combination of a daily and
\* a monthly limit that is absent, reached by one request or by two.
SeedDailyLimit(codename) ==
    CASE codename = "Orion"  -> 1
      [] codename = "Titan"  -> 0
      [] codename = "Nova"   -> 1
      [] codename = "Athena" -> 1
      [] codename = "Vox"    -> 2
      [] codename = "Aether" -> 0
      [] codename = "Echo"   -> 1

SeedMonthlyLimit(codename) ==
    CASE codename = "Orion"  -> 0
      [] codename = "Titan"  -> 1
      [] codename = "Nova"   -> 1
      [] codename = "Athena" -> 2
      [] codename = "Vox"    -> 1
      [] codename = "Aether" -> 0
      [] codename = "Echo"   -> 0

\* The tick of each provider's last daily reset: two days ago, yesterday
\* or today, seen from StartTime.
SeedLastResetDaily(codename) ==
    CASE codename = "Orion"  -> 0
      [] codename = "Titan"  -> 1
      [] codename = "Nova"   -> 3
      [] codename = "Athena" -> 2
      [] codename = "Vox"    -> 3
      [] codename = "Aether" -> 0
      [] codename = "Echo"   -> 3

\* The clock starts on the last tick of the first month.
StartTime == TicksPerMonth - 1

\* a provisioned row of ai_models
SeedRow(codename) ==
    [credit_status         |-> TRUE,
     current_daily_usage   |-> 0,
     current_monthly_usage |-> 0,
     daily_limit           |-> SeedDailyLimit(codename),
     monthly_limit         |-> SeedMonthlyLimit(codename),
     last_reset_daily      |-> SeedLastResetDaily(codename),
     last_reset_monthly    |-> 0,
     last_checked          |-> 0]

\* Both edge functions against one store: every provider eligible, every
\* credential configured, nothing used yet.
Init ==
    /\ ai_models = [c \in Codenames |-> SeedRow(c)]
    /\ ai_usage_tracking = <<>>
    /\ env = ApiKeys
    /\ now = StartTime
    /\ req = IdleReq
    /\ mon = IdleMon
    /\ trk = <<>>
    /\ nreq = 0
    /\ nmon = 0

Next ==
    \/ Orchestrator
    \/ Monitor
    \/ Tick

Spec == Init /\ [][Next]_vars

\* The providers and credentials one kind of request depends on.
Capabilities ==
    {[models |-> {"Orion", "Titan", "Nova", "Athena"},
      keys   |-> {"GROQ_API_KEY", "MISTRAL_API_KEY", "ANTHROPIC_API_KEY"}],
     [models |-> {"Vox", "Aether"},
      keys   |-> {"ELEVENLABS_API_KEY", "AZURE_SPEECH_KEY"}],
     [models |-> {"Echo"},
      keys   |-> {}]}

\* The orchestrator alone. The deployments explored: within one capability
\* any providers are disabled and any credentials are missing; the
\* providers of the other capabilities are eligible and configured.
InitOrch ==
    /\ \E cap \in Capabilities :
       \E disabled \in SUBSET cap.models :
       \E missing \in SUBSET cap.keys :
          /\ ai_models = [c \in Codenames |->
                [SeedRow(c) EXCEPT !.credit_status = c \notin disabled]]
          /\ env = ApiKeys \ missing
    /\ ai_usage_tracking = <<>>
    /\ now = StartTime
    /\ req = IdleReq
    /\ mon = IdleMon
    /\ trk = <<>>
    /\ nreq = 0
    /\ nmon = 0

NextOrch == Orchestrator

SpecOrch == InitOrch /\ [][NextOrch]_vars

\* Every await of a request resolves: a store call answers and a provider
\* call returns or fails within the timeout of its network call.
\* The deployments of InitOrch when the last request arrives: the requests
\* before it were turned away for their unknown action.
InitOrchLast ==
    /\ \E cap \in Capabilities :
       \E disabled \in SUBSET cap.models :
       \E missing \in SUBSET cap.keys :
          /\ ai_models = [c \in Codenames |->
                [SeedRow(c) EXCEPT !.credit_status = c \notin disabled]]
          /\ env = ApiKeys \ missing
    /\ ai_usage_tracking = <<>>
    /\ now = StartTime
    /\ req = IdleReq
    /\ mon = IdleMon
    /\ trk = <<>>
    /\ nreq = MaxRequests - 1
    /\ nmon = 0

SpecOrchFair == InitOrchLast /\ [][NextOrch]_vars /\ WF_vars(NextOrch)

\* The provisioned store when the last orchestrator request and the last
\* credit-monitor request arrive: the two run concurrently, every await of
\* the one interleaved with every await of the other.
InitPair ==
    /\ ai_models = [c \in Codenames |-> SeedRow(c)]
    /\ ai_usage_tracking = <<>>
    /\ env = ApiKeys
    /\ now = StartTime
    /\ req = IdleReq
    /\ mon = IdleMon
    /\ trk = <<>>
    /\ nreq = MaxRequests - 1
    /\ nmon = MaxMonitorRuns - 1

SpecPair == InitPair /\ [][Next]_vars

\* The usage a provider has run up in the middle of a period: under, at and
\* over its limits.
SeedDailyUsage(codename) ==
    CASE codename = "Orion"  -> 2
      [] codename = "Titan"  -> 1
      [] codename = "Nova"   -> 1
      [] codename = "Athena" -> 0
      [] codename = "Vox"    -> 1
      [] codename = "Aether" -> 4
      [] codename = "Echo"   -> 1

SeedMonthlyUsage(codename) ==
    CASE codename = "Orion"  -> 5
      [] codename = "Titan"  -> 1
      [] codename = "Nova"   -> 1
      [] codename = "Athena" -> 1
      [] codename = "Vox"    -> 0
      [] codename = "Aether" -> 4
      [] codename = "Echo"   -> 1

\* a row of ai_models in the middle of a period
UsedRow(codename) ==
    [SeedRow(codename) EXCEPT !.current_daily_usage   = SeedDailyUsage(codename),
                              !.current_monthly_usage = SeedMonthlyUsage(codename)]

\* The credit monitor alone, with the clock, against a store in the middle
\* of a period: any providers disabled, whatever their usage (the breaker
\* disables a provider under its limits, trackUsage leaves one enabled over
\* them).
InitMonitor ==
    /\ \E disabled \in SUBSET Codenames :
          ai_models = [c \in Codenames |->
                [UsedRow(c) EXCEPT !.credit_status = c \notin disabled]]
    /\ ai_usage_tracking = <<>>
    /\ env = ApiKeys
    /\ now = StartTime
    /\ req = IdleReq
    /\ mon = IdleMon
    /\ trk = <<>>
    /\ nreq = 0
    /\ nmon = 0

NextMonitor ==
    \/ Monitor
    \/ Tick

SpecMonitor == InitMonitor /\ [][NextMonitor]_vars

-----------------------------------------------------------------------------
(* Concurrent trackUsage calls *)

\* what the callers pass as tokens: question.length
TokensOfCall == Len("Generated interview question")

\* a trackUsage call that goes to the aggregate increment without the insert
Tracker_RpcOnly(i, modelCodename, requests) ==
    [pc            |-> "tu_rpc",
     modelCodename |-> modelCodename,
     sessionId     |-> "session-" \o ToString(i),
     requests      |-> requests,
     tokens        |-> TokensOfCall]

\* one trackUsage call in flight
Tracker(i, modelCodename, requests) ==
    [pc            |-> "tu_insert",
     modelCodename |-> modelCodename,
     sessionId     |-> "session-" \o ToString(i),
     requests      |-> requests,
     tokens        |-> TokensOfCall]

\* await supabase.from('ai_usage_tracking').insert(...)
TrackerInsert ==
    \E i \in DOMAIN trk :
        /\ trk[i].pc = "tu_insert"
        /\ ai_usage_tracking' = Append(ai_usage_tracking,
              UsageRow(trk[i].modelCodename, trk[i].sessionId,
                       trk[i].requests, trk[i].tokens))
        /\ trk' = [trk EXCEPT ![i].pc = "tu_rpc"]
        /\ UNCHANGED <<ai_models, env, now, req, mon, nreq, nmon>>

\* await supabase.rpc('update_model_usage', ...)
TrackerRpc ==
    \E i \in DOMAIN trk :
        /\ trk[i].pc = "tu_rpc"
        /\ ai_models' = update_model_usage(ai_models,
              UsageRpcArgs(trk[i].modelCodename, trk[i].requests, trk[i].tokens))
        /\ trk' = [trk EXCEPT ![i].pc = "done"]
        /\ UNCHANGED <<ai_usage_tracking, env, now, req, mon, nreq, nmon>>

\* NumTrackers requests of independent execution units have reached
\* trackUsage for the same provider, each with its own increment; no
\* credit-monitor request runs.
InitTrack ==
    /\ ai_models = [c \in Codenames |-> UsedRow(c)]
    /\ ai_usage_tracking = <<>>
    /\ env = ApiKeys
    /\ now = StartTime
    /\ req = IdleReq
    /\ mon = IdleMon
    /\ \E c \in Codenames :
       \E adds \in [1..NumTrackers -> 1..MaxAdd] :
          trk = [i \in 1..NumTrackers |-> Tracker(i, c, adds[i])]
    /\ nreq = 0
    /\ nmon = 0

NextTrack ==
    \/ TrackerInsert
    \/ TrackerRpc

SpecTrack == InitTrack /\ [][NextTrack]_vars

-----------------------------------------------------------------------------
(* The fallback question over a range of question numbers *)

\* generateInterviewQuestion after a loop that left question empty, for a
\* context with question number n: the request answers with the canned
\* question. Requests follow one another.
FallbackQuestion ==
    \E n \in 1..MaxFallbackNumber :
        /\ req' = [WithFallbackQuestion(
                      [IdleReq EXCEPT !.action = "generate_question",
                                      !.context = [sessionId      |-> "session-1",
                                                   questionNumber |-> n,
                                                   userResponse   |-> ""]])
                   EXCEPT !.pc = "done"]
        /\ UNCHANGED <<ai_models, ai_usage_tracking, env, now, mon, trk, nreq, nmon>>

\* any providers disabled, any usage
InitFallback == InitMonitor

NextFallback == FallbackQuestion

SpecFallback == InitFallback /\ [][NextFallback]_vars

-----------------------------------------------------------------------------
(* Vocabulary of the properties *)

Done == req.pc = "done"

\* the candidate list of the request's capability
Candidates(action) ==
    CASE action = "generate_question" -> QuestionModels
      [] action = "generate_speech"   -> SpeechModels
      [] action = "process_audio"     -> {"Echo"}
      [] action = "evaluate_response" -> {"Athena"}
      [] OTHER                        -> {}

Priority(action) ==
    IF action = "generate_question" THEN QuestionPriority ELSE SpeechPriority

Pos(order, c) == CHOOSE k \in 1..Len(order) : order[k] = c

\* the credential a candidate needs is configured
Configured(c) ==
    CASE c = "Orion"  -> "GROQ_API_KEY" \in env
      [] c = "Titan"  -> "MISTRAL_API_KEY" \in env
      [] c = "Athena" -> "ANTHROPIC_API_KEY" \in env
      [] c = "Vox"    -> "ELEVENLABS_API_KEY" \in env
      [] c = "Aether" -> "AZURE_SPEECH_KEY" \in env
      [] OTHER        -> TRUE

\* positions in req.attempts of the calls to the capability's own candidates
\* (all of them but the opportunistic Athena call of generate_question)
PrimaryAttempts ==
    {k \in 1..Len(req.attempts) : req.attempts[k].codename \in Candidates(req.action)}

\* no candidate of the capability was eligible when the request arrived
NoneEligible == \A c \in Candidates(req.action) : ~req.store0[c].credit_status

\* the usage rows the request appended for provider c
Appended(c) ==
    {k \in Len(req.log0) + 1 .. Len(ai_usage_tracking) :
        ai_usage_tracking[k].model_codename = c}

UsageUnchanged ==
    /\ ai_usage_tracking = req.log0
    /\ \A c \in Codenames :
          /\ ai_models[c].current_daily_usage = req.store0[c].current_daily_usage
          /\ ai_models[c].current_monthly_usage = req.store0[c].current_monthly_usage

HasField(r, f) == f \in DOMAIN r.body

\* the request ended in fallback content
EndedInFallback ==
    /\ Done
    /\ \/ req.action = "generate_question" /\ HasField(req.response, "usedModel")
            /\ req.response.body.usedModel = "Fallback"
       \/ req.action = "evaluate_response" /\ req.response.body.usedModel = "Fallback"
       \/ req.action = "generate_speech" /\ HasField(req.response, "useBrowserTTS")

-----------------------------------------------------------------------------
(* C1 .. C8: the orchestrator, checked under SpecOrch *)

\* C1: in generate_question and generate_speech no candidate is attempted
\* before a higher-priority candidate that the eligibility read returned and
\* whose credential is configured, whatever order the store returned the rows in.
C1_PriorityOrder ==
    req.action \in {"generate_question", "generate_speech"} =>
        \A k \in PrimaryAttempts :
        \A h \in Range(req.availableModels) :
            (/\ Pos(Priority(req.action), h)
                  < Pos(Priority(req.action), req.attempts[k].codename)
             /\ Configured(h))
            => \E j \in 1..(k - 1) : req.attempts[j].codename = h

\* C2: in generate_question and generate_speech a candidate whose adapter
\* failed is disabled in the store before the next candidate is attempted,
\* and when the first attempt fails and the next one succeeds the request
\* returns the result of that next candidate, with usedModel its codename.
C2_SingleStrike ==
    req.action \in {"generate_question", "generate_speech"} =>
        /\ \A k \in PrimaryAttempts :
              (~req.attempts[k].ok /\ (k < Len(req.attempts) \/ Done))
              => ~ai_models[req.attempts[k].codename].credit_status
        /\ (/\ Done
            /\ {1, 2} \subseteq PrimaryAttempts
            /\ ~req.attempts[1].ok
            /\ req.attempts[2].ok)
           => /\ req.response.status = 200
              /\ req.response.body.usedModel = req.attempts[2].codename
              /\ IF req.action = "generate_question"
                 THEN req.response.body.question = req.attempts[2].value
                 ELSE req.response.body.audioUrl = req.attempts[2].value

\* C3: with no candidate eligible, generate_question, generate_speech and
\* process_audio answer 503 with an error and the whole candidate list, call
\* no adapter and write nothing; evaluate_response answers 200 with the
\* static evaluation.
C3_NoneEligible ==
    (Done /\ NoneEligible) =>
        /\ req.attempts = <<>>
        /\ ai_models = req.store0
        /\ ai_usage_tracking = req.log0
        /\ req.action \in {"generate_question", "generate_speech", "process_audio"} =>
              /\ req.response.status = 503
              /\ HasField(req.response, "error")
              /\ Range(req.response.body.unavailableModels) = Candidates(req.action)
              /\ Len(req.response.body.unavailableModels) = Cardinality(Candidates(req.action))
        /\ req.action = "evaluate_response" =>
              /\ req.response.status = 200
              /\ ~HasField(req.response, "error")
              /\ req.response.body.usedModel = "Fallback"
              /\ req.response.body.scores =
                    [clarity |-> 7, confidence |-> 7, content |-> 7, tone |-> 7]

C3_Witness ==
    /\ Done
    /\ req.action = "generate_question"
    /\ NoneEligible
    /\ req.response.status = 503

\* C4 as stated: with Orion, Titan and Nova all disabled generate_question
\* answers 200 with usedModel "Fallback" and, for questionNumber 1, the
\* first canned question.
C4_Original ==
    (Done /\ req.action = "generate_question" /\ NoneEligible) =>
        /\ req.response.status = 200
        /\ HasField(req.response, "usedModel")
        /\ req.response.body.usedModel = "Fallback"
        /\ req.context.questionNumber = 1 =>
              req.response.body.question = questions[1]

\* a candidate's adapter returned a text that is not empty
GotQuestion ==
    \E k \in PrimaryAttempts : req.attempts[k].ok /\ req.attempts[k].value # ""

\* C4 as amended: with all three disabled generate_question answers 503;
\* it answers 200 with usedModel "Fallback" and canned question
\* (questionNumber - 1) mod 5, the first one for questionNumber 1, when some
\* text provider is eligible and no adapter returns a non-empty text.
C4_FallbackQuestion ==
    (Done /\ req.action = "generate_question") =>
        /\ NoneEligible => req.response.status = 503
        /\ (~NoneEligible /\ ~GotQuestion) =>
              /\ req.response.status = 200
              /\ req.response.body.usedModel = "Fallback"
              /\ req.response.body.question \in Range(questions)
              /\ req.context.questionNumber = 1 =>
                    req.response.body.question =
                        "Tell me about a challenging project you've worked on recently."
        /\ GotQuestion => req.response.body.usedModel # "Fallback"

C4_Witness ==
    /\ Done
    /\ req.action = "generate_question"
    /\ req.context.questionNumber = 1
    /\ ~NoneEligible
    /\ req.response.status = 200
    /\ req.response.body.usedModel = "Fallback"
    /\ req.response.body.question = questions[1]

\* the request went on after the failed call k: it called a later candidate,
\* or it ended in the fallback of its capability
FailureRecovered(k) ==
    \/ \E j \in PrimaryAttempts : j > k
    \/ EndedInFallback

\* C6 as stated: for every capability a failed adapter call trips the
\* breaker of its provider, and the request goes on to the next candidate
\* or ends in fallback content, never in an error response.
C6_Original ==
    Done =>
        \A k \in 1..Len(req.attempts) :
            ~req.attempts[k].ok =>
                /\ ~ai_models[req.attempts[k].codename].credit_status
                /\ req.response.status = 200
                /\ FailureRecovered(k)

\* C6 as amended: in generate_question, generate_speech and
\* evaluate_response a failed call to a candidate trips its breaker and the
\* request goes on to the next candidate or ends in the capability's
\* fallback, with status 200; a failed opportunistic Athena call is dropped
\* and trips no breaker; in process_audio a failed Echo call trips Echo's
\* breaker and the request ends in a status-500 error response.
C6_FailureHandling ==
    Done =>
        \A k \in 1..Len(req.attempts) :
            ~req.attempts[k].ok =>
                IF req.action = "process_audio"
                THEN /\ ~ai_models["Echo"].credit_status
                     /\ req.response.status = 500
                     /\ HasField(req.response, "error")
                ELSE /\ req.response.status = 200
                     /\ k \in PrimaryAttempts =>
                           /\ ~ai_models[req.attempts[k].codename].credit_status
                           /\ FailureRecovered(k)
                     /\ k \notin PrimaryAttempts =>
                           ai_models["Athena"].credit_status
                               = req.store0["Athena"].credit_status

C6_Witness ==
    /\ Done
    /\ req.action = "generate_question"
    /\ Len(req.attempts) >= 2
    /\ \A k \in 1..Len(req.attempts) : ~req.attempts[k].ok
    /\ req.response.status = 200
    /\ req.response.body.usedModel = "Fallback"

\* C7: every adapter call of a request that succeeded, the opportunistic
\* Athena call included, appended exactly one usage row for its provider,
\* and no other usage row was appended.
C7_UsagePerCall ==
    Done =>
        \A c \in Codenames :
            Cardinality(Appended(c)) =
                Cardinality({k \in 1..Len(req.attempts) :
                                req.attempts[k].codename = c /\ req.attempts[k].ok})

\* C8: a request that ends in fallback content appended no usage row and
\* raised no provider's daily or monthly usage.
C8_FallbackNoUsage ==
    EndedInFallback => UsageUnchanged

C8_Witness ==
    /\ EndedInFallback
    /\ req.action = "generate_question"
    /\ req.attempts # <<>>
    /\ req.attempts[1].ok
    /\ UsageUnchanged

\* positions in req.attempts of the opportunistic Athena call
AthenaAttempts == (1..Len(req.attempts)) \ PrimaryAttempts

\* C14: a generate_question request that found a candidate eligible answers
\* 200 with the question and usedModel its candidate loop left (the text
\* and codename of the candidate that returned a text, else the canned
\* question and "Fallback"), whether the Athena evaluation returned, failed
\* or was skipped; a failed evaluation leaves evaluation null, no error in
\* the response and Athena's credit_status as it was.
C14_EvaluationBestEffort ==
    (Done /\ req.action = "generate_question" /\ ~NoneEligible) =>
        /\ req.response.status = 200
        /\ ~HasField(req.response, "error")
        /\ \A k \in PrimaryAttempts :
              (req.attempts[k].ok /\ req.attempts[k].value # "") =>
                  /\ req.response.body.question = req.attempts[k].value
                  /\ req.response.body.usedModel = req.attempts[k].codename
        /\ ~GotQuestion =>
              /\ req.response.body.question = getFallbackQuestion(req.context)
              /\ req.response.body.usedModel = "Fallback"
        /\ \A k \in AthenaAttempts :
              /\ req.response.body.evaluation
                    = IF req.attempts[k].ok THEN req.attempts[k].value ELSE "null"
              /\ ~req.attempts[k].ok =>
                    ai_models["Athena"].credit_status = req.store0["Athena"].credit_status
        /\ AthenaAttempts = {} => req.response.body.evaluation = "null"

\* the evaluation failed after Orion returned the question
C14_Witness ==
    /\ Done
    /\ req.action = "generate_question"
    /\ \E k \in AthenaAttempts : ~req.attempts[k].ok
    /\ req.response.status = 200
    /\ req.response.body.usedModel = "Orion"
    /\ req.response.body.question = "Generated interview question"
    /\ req.response.body.evaluation = "null"

\* C15: a generate_speech request that found a candidate eligible and got
\* audio from none (each one skipped for a missing credential or failed)
\* answers 200 with exactly {error: "All TTS models failed", useBrowserTTS:
\* true}, and every candidate whose adapter failed has credit_status false.
C15_AllTtsFailed ==
    (/\ Done
     /\ req.action = "generate_speech"
     /\ ~NoneEligible
     /\ \A k \in PrimaryAttempts : ~req.attempts[k].ok)
    => /\ req.response.status = 200
       /\ req.response.body = [error |-> "All TTS models failed", useBrowserTTS |-> TRUE]
       /\ ~HasField(req.response, "audioUrl")
       /\ \A k \in PrimaryAttempts : ~ai_models[req.attempts[k].codename].credit_status

\* both candidates were eligible, one was skipped for its missing
\* credential and the other failed
C15_Witness ==
    /\ Done
    /\ req.action = "generate_speech"
    /\ Len(req.availableModels) = 2
    /\ Len(req.attempts) = 1
    /\ ~req.attempts[1].ok
    /\ ~ai_models[req.attempts[1].codename].credit_status
    /\ req.response.status = 200
    /\ req.response.body.useBrowserTTS

\* a request is being handled
InFlight == req.pc \notin {"idle", "done"}

\* No adapter was called twice by the request; in generate_question and
\* generate_speech the calls to the candidates follow the rows of the
\* eligibility read forward, each call but the last one failed, and there
\* are no more calls than rows.
AtMostOnce ==
    /\ \A j, k \in 1..Len(req.attempts) :
          j # k => req.attempts[j].codename # req.attempts[k].codename
    /\ req.action \in {"generate_question", "generate_speech"} =>
          /\ Cardinality(PrimaryAttempts) <= Len(req.availableModels)
          /\ \A k \in PrimaryAttempts :
                req.attempts[k].codename \in Range(req.availableModels)
          /\ \A j, k \in PrimaryAttempts :
                j < k => /\ ~req.attempts[j].ok
                         /\ Pos(req.availableModels, req.attempts[j].codename)
                               < Pos(req.availableModels, req.attempts[k].codename)

\* C21: within a request no adapter is called twice, a failed candidate is
\* followed by a later row of the eligibility read, never by itself, and
\* every request that is being handled ends with a response.
C21_SingleAttempt ==
    /\ []AtMostOnce
    /\ InFlight ~> Done

\* Orion failed, Titan failed, Nova answered, each called once
C21_Witness ==
    /\ Done
    /\ req.action = "generate_question"
    /\ Len(req.attempts) >= 3
    /\ ~req.attempts[1].ok
    /\ ~req.attempts[2].ok
    /\ req.attempts[3].ok
    /\ req.attempts[1].codename # req.attempts[2].codename
    /\ req.response.status = 200

\* the k-th adapter call of the request went to a provider that the
\* request's eligibility read returned with credit_status true and whose
\* credential is configured
EligibleAndConfigured(k) ==
    LET c == req.attempts[k].codename
    IN  /\ req.store0[c].credit_status
        /\ Configured(c)
        /\ (k \in PrimaryAttempts
            /\ req.action \in {"generate_question", "generate_speech"})
           => c \in Range(req.availableModels)

\* C23: every adapter call of a request, the primary candidates of each
\* capability and the opportunistic Athena evaluation of generate_question
\* alike, goes to a provider the request read as eligible and whose
\* credential is configured.
C23_InvokedOnlyIfEligible ==
    \A k \in 1..Len(req.attempts) : EligibleAndConfigured(k)

-----------------------------------------------------------------------------
(* C5, C16, C18, C19: both edge functions against one store, checked under Spec *)

\* a limit of the row is set and reached
OverLimit(model) ==
    \/ dailyExceeded(model.daily_limit, model.current_daily_usage)
    \/ monthlyExceeded(model.monthly_limit, model.current_monthly_usage)

\* C5: whenever no request is in flight, every provider whose daily or
\* monthly limit is set and reached by its usage has credit_status false.
C5_OverLimitDisabled ==
    (req.pc \in {"idle", "done"} /\ mon.pc \in {"idle", "done"}) =>
        \A c \in Codenames : OverLimit(ai_models[c]) => ~ai_models[c].credit_status

\* C16: get_exhausted_models lists, once each, exactly the providers whose
\* credit_status is false when it reads the store; an entry has the reason
\* "Daily limit exceeded" when its daily limit is set and reached, and the
\* reason "Monthly limit exceeded" only when its daily limit is not reached
\* and its monthly limit is set and reached.
C16_ExhaustedQuery ==
    [][(mon.pc = "ge_select" /\ mon'.pc = "done") =>
          LET list == mon'.response.body.exhaustedModels IN
          /\ {list[k].codename : k \in DOMAIN list}
                = {c \in Codenames : ~ai_models[c].credit_status}
          /\ Len(list) = Cardinality({c \in Codenames : ~ai_models[c].credit_status})
          /\ \A k \in DOMAIN list :
                LET dailyEx   == list[k].dailyLimit > 0
                                   /\ list[k].dailyUsage >= list[k].dailyLimit
                    monthlyEx == list[k].monthlyLimit > 0
                                   /\ list[k].monthlyUsage >= list[k].monthlyLimit
                IN  /\ dailyEx => list[k].reason = "Daily limit exceeded"
                    /\ list[k].reason = "Monthly limit exceeded"
                          => (~dailyEx /\ monthlyEx)]_vars

\* C18: in a step of trackUsage or check_credits a provider's daily usage
\* goes down only to 0 and together with a later last_reset_daily, and its
\* monthly usage only to 0 and together with a later last_reset_monthly.
C18_UsageMonotone ==
    [][mon.pc # "rc_update" =>
          \A c \in Codenames :
              /\ ai_models'[c].current_daily_usage < ai_models[c].current_daily_usage
                    => /\ ai_models'[c].current_daily_usage = 0
                       /\ ai_models'[c].last_reset_daily > ai_models[c].last_reset_daily
              /\ ai_models'[c].current_monthly_usage < ai_models[c].current_monthly_usage
                    => /\ ai_models'[c].current_monthly_usage = 0
                       /\ ai_models'[c].last_reset_monthly
                             > ai_models[c].last_reset_monthly]_vars

\* C19: an update of check_credits turns a provider's credit_status from
\* false to true only when the run read it as false: a breaker trip
\* committed after the run's read is not written back to true.
C19_TripNotOverwritten ==
    [][mon.pc = "cc_update" =>
          \A c \in Codenames :
              (~ai_models[c].credit_status /\ ai_models'[c].credit_status)
              => ~mon.models[c].credit_status]_vars

-----------------------------------------------------------------------------
(* C24: what enables a provider, checked under SpecPair *)

\* the step turns the credit_status of provider c from false to true
Enables(c) == ~ai_models[c].credit_status /\ ai_models'[c].credit_status

\* the step is the write of check_credits for provider c, a daily or monthly
\* reset occurred for c in the evaluation that computed the write, and no
\* limit of c is reached by the counters after the resets
ResetWrite(c) ==
    /\ mon.pc = "cc_update"
    /\ mon.updates[mon.k].codename = c
    /\ \/ daysSinceReset(mon.now, mon.models[c].last_reset_daily) >= 1
       \/ monthsSinceReset(mon.now, mon.models[c].last_reset_monthly) >= 1
    /\ ~dailyExceeded(mon.models[c].daily_limit,
                      mon.updates[mon.k].current_daily_usage)
    /\ ~monthlyExceeded(mon.models[c].monthly_limit,
                        mon.updates[mon.k].current_monthly_usage)

\* the providers a step of the request reads as eligible
ReadEligible ==
    IF req.pc \in {"gq_getAvailableModels", "gs_getAvailableModels"}
    THEN Range(req'.availableModels)
    ELSE IF req.pc = "pa_isModelAvailable" /\ req'.pc = "pa_call" THEN {"Echo"}
    ELSE IF \/ req.pc = "gq_isModelAvailable" /\ req'.pc = "gq_evaluateWithAthena"
            \/ req.pc = "ev_isModelAvailable" /\ req'.pc = "ev_call" THEN {"Athena"}
    ELSE {}

\* C24: a step that turns a provider's credit_status from false to true is
\* a step of the credit monitor, either the write of reset_credits or a
\* write of check_credits for that provider computed by an evaluation in
\* which a reset occurred and no limit is reached after it; no step of an
\* orchestrator request does so, and a request reads as eligible only
\* providers whose credit_status is true in the store at that read.
C24_OnlyMonitorEnables ==
    [][/\ \A c \in Codenames :
             Enables(c) => /\ req' = req
                           /\ mon.pc = "rc_update" \/ ResetWrite(c)
       /\ req' # req => \A c \in ReadEligible : ai_models[c].credit_status]_vars

\* the breaker disabled a provider during the request, the request went on
\* to its response without calling it again, and the store has it enabled
\* again: the credit monitor re-enabled it
C24_Witness ==
    /\ Done
    /\ mon.pc = "done"
    /\ mon.action \in {"check_credits", "reset_credits"}
    /\ \E k \in 1..Len(req.attempts) :
          /\ ~req.attempts[k].ok
          /\ req.attempts[k].codename \in Candidates(req.action)
          /\ req.store0[req.attempts[k].codename].credit_status
          /\ ai_models[req.attempts[k].codename].credit_status

-----------------------------------------------------------------------------
(* C9: concurrent trackUsage calls, checked under SpecTrack *)

\* what the calls 1..k that have completed added to provider c
RECURSIVE Added(_, _)
Added(c, k) ==
    IF k = 0
    THEN 0
    ELSE Added(c, k - 1)
         + (IF trk[k].pc = "done" /\ trk[k].modelCodename = c
            THEN trk[k].requests
            ELSE 0)

\* C9: in every interleaving of the concurrent trackUsage calls, each
\* provider's daily and monthly usage is what it was before the calls plus
\* the sum of the increments of the calls that have completed; once all
\* have completed, plus the sum of all of them.
C9_NoLostUpdate ==
    \A c \in Codenames :
        /\ ai_models[c].current_daily_usage
              = SeedDailyUsage(c) + Added(c, Len(trk))
        /\ ai_models[c].current_monthly_usage
              = SeedMonthlyUsage(c) + Added(c, Len(trk))

C9_Witness ==
    /\ Len(trk) >= 2
    /\ \A i \in DOMAIN trk : trk[i].pc = "done"
    /\ ai_usage_tracking[1].session_id = trk[Len(trk)].sessionId
    /\ \E c \in Codenames :
          /\ Added(c, Len(trk)) > Len(trk)
          /\ ai_models[c].current_daily_usage = SeedDailyUsage(c) + Added(c, Len(trk))

-----------------------------------------------------------------------------
(* C22: the two writes of trackUsage, checked under SpecTrack *)

\* the UsageRecords appended for provider c
Records(c) ==
    {k \in DOMAIN ai_usage_tracking : ai_usage_tracking[k].model_codename = c}

\* the trackUsage calls whose aggregate increment has been applied to c
Increments(c) ==
    {i \in DOMAIN trk : trk[i].pc = "done" /\ trk[i].modelCodename = c}

\* requests_made summed over the first k UsageRecords of provider c
RECURSIVE Logged(_, _)
Logged(c, k) ==
    IF k = 0
    THEN 0
    ELSE Logged(c, k - 1)
         + (IF ai_usage_tracking[k].model_codename = c
            THEN ai_usage_tracking[k].requests_made
            ELSE 0)

-----------------------------------------------------------------------------
(* C10: the credit monitor, checked under SpecMonitor *)

\* C10: when reset_credits has answered, every provider has daily and
\* monthly usage 0, credit_status true, both reset timestamps at the time of
\* the request and its limits as before, whatever its row was when the
\* request arrived.
C10_ResetAll ==
    (mon.action = "reset_credits" /\ mon.pc = "done") =>
        /\ mon.response.status = 200
        /\ \A c \in Codenames :
              /\ ai_models[c].current_daily_usage = 0
              /\ ai_models[c].current_monthly_usage = 0
              /\ ai_models[c].credit_status
              /\ ai_models[c].last_reset_daily = mon.now
              /\ ai_models[c].last_reset_monthly = mon.now
              /\ ai_models[c].daily_limit = mon.store0[c].daily_limit
              /\ ai_models[c].monthly_limit = mon.store0[c].monthly_limit

\* reset_credits has answered for a store in which the breaker had disabled
\* a provider under its limits and another provider was over its limit
C10_Witness ==
    /\ mon.action = "reset_credits"
    /\ mon.pc = "done"
    /\ \E c \in Codenames :
          /\ ~mon.store0[c].credit_status
          /\ ~OverLimit(mon.store0[c])
          /\ ai_models[c].credit_status
    /\ \E c \in Codenames :
          /\ OverLimit(mon.store0[c])
          /\ mon.store0[c].last_reset_daily < mon.now
          /\ ai_models[c].current_daily_usage = 0

-----------------------------------------------------------------------------
(* C13: the fallback question, checked under SpecFallback *)

\* C13: the fallback question for questionNumber n is item (n - 1) mod 5 of
\* the list of five, whatever the store holds and whatever request came
\* before; questionNumber n + 5 selects the same question as n, so 1 and 6
\* both select the first one.
C13_FallbackSelection ==
    (Done /\ req.usedModel = "Fallback") =>
        LET n == req.context.questionNumber IN
        /\ Len(questions) = 5
        /\ req.question = questions[((n - 1) % 5) + 1]
        /\ n \in {1, 6} =>
              req.question
                  = "Tell me about a challenging project you've worked on recently."
        /\ getFallbackQuestion([req.context EXCEPT !.questionNumber = n + 5])
              = req.question

\* question number 6 was answered with the first canned question by a store
\* with a disabled provider
C13_Witness ==
    /\ Done
    /\ req.usedModel = "Fallback"
    /\ req.context.questionNumber = 6
    /\ req.question = questions[1]
    /\ \E c \in Codenames : ~ai_models[c].credit_status

-----------------------------------------------------------------------------
(* C11, C12, C17, C20: check_credits, checked under SpecMonitor *)

\* check_credits has answered
CheckDone == mon.action = "check_credits" /\ mon.pc = "done"

\* the provider's last daily reset was at least one day before the request
DailyResetDue(c) == mon.now - mon.store0[c].last_reset_daily >= TicksPerDay

\* the provider's last monthly reset was in an earlier calendar month
MonthlyResetDue(c) ==
    MonthIndex(mon.store0[c].last_reset_monthly) < MonthIndex(mon.now)

\* the codenames in the exhaustedModels list of the response
Listed ==
    {mon.response.body.exhaustedModels[k].codename :
        k \in DOMAIN mon.response.body.exhaustedModels}

\* C11: when check_credits has answered, every provider whose last daily
\* reset was at least one day before the request has daily usage 0, and if
\* no limit is reached by its counters after the resets it has credit_status
\* true, also when it was false before, and is not in the exhaustedModels list.
C11_ResetBeforeLimit ==
    CheckDone =>
        \A c \in Codenames :
            DailyResetDue(c) =>
                /\ ai_models[c].current_daily_usage = 0
                /\ ~OverLimit(ai_models[c]) =>
                      /\ ai_models[c].credit_status
                      /\ c \notin Listed

\* a disabled provider over its daily limit, its daily reset due, comes out
\* of check_credits enabled with daily usage 0
C11_Witness ==
    /\ CheckDone
    /\ \E c \in Codenames :
          /\ DailyResetDue(c)
          /\ ~mon.store0[c].credit_status
          /\ mon.store0[c].daily_limit > 0
          /\ mon.store0[c].current_daily_usage > mon.store0[c].daily_limit
          /\ ai_models[c].current_daily_usage = 0
          /\ ai_models[c].credit_status
          /\ c \notin Listed

\* C12: when check_credits has answered, every provider that had a daily
\* limit set and reached and no daily reset due has credit_status false,
\* whatever its credit_status was and whether or not its monthly counter
\* was reset.
C12_OverDailyDisabled ==
    CheckDone =>
        \A c \in Codenames :
            (/\ mon.store0[c].daily_limit > 0
             /\ mon.store0[c].current_daily_usage >= mon.store0[c].daily_limit
             /\ ~DailyResetDue(c))
            => ~ai_models[c].credit_status

\* a disabled provider over its daily limit stays disabled through a
\* monthly reset, and an enabled one is disabled
C12_Witness ==
    /\ CheckDone
    /\ \E c \in Codenames :
          /\ mon.store0[c].daily_limit > 0
          /\ mon.store0[c].current_daily_usage >= mon.store0[c].daily_limit
          /\ ~DailyResetDue(c)
          /\ MonthlyResetDue(c)
          /\ ~mon.store0[c].credit_status
          /\ mon.store0[c].current_monthly_usage > 0
          /\ ai_models[c].current_monthly_usage = 0
          /\ ~ai_models[c].credit_status
    /\ \E c \in Codenames :
          /\ dailyExceeded(mon.store0[c].daily_limit, mon.store0[c].current_daily_usage)
          /\ ~DailyResetDue(c)
          /\ mon.store0[c].credit_status
          /\ ~ai_models[c].credit_status

\* the gate evaluation left the provider's credit_status, counters and
\* reset timestamps as they were stored
GateUnchanged(c) ==
    /\ ai_models[c].credit_status = mon.store0[c].credit_status
    /\ ai_models[c].current_daily_usage = mon.store0[c].current_daily_usage
    /\ ai_models[c].current_monthly_usage = mon.store0[c].current_monthly_usage
    /\ ai_models[c].last_reset_daily = mon.store0[c].last_reset_daily
    /\ ai_models[c].last_reset_monthly = mon.store0[c].last_reset_monthly

\* C17: when check_credits has answered, a provider whose credit_status,
\* counters and reset timestamps came out as stored was not written (its
\* last_checked is as stored), and updatedModels counts the other providers.
C17_OnlyChangedWritten ==
    CheckDone =>
        /\ \A c \in Codenames :
              GateUnchanged(c) =>
                  ai_models[c].last_checked = mon.store0[c].last_checked
        /\ mon.response.body.updatedModels
              = Cardinality({c \in Codenames : ~GateUnchanged(c)})

\* C20: the exhaustedModels list of check_credits holds, once each, exactly
\* the providers this run moved from credit_status true to false, each over
\* a limit on its counters after the resets; an entry carries the daily
\* reason, usage and limit when the daily limit is reached, also when both
\* are, and the monthly ones otherwise.
C20_ExhaustedList ==
    CheckDone =>
        LET list == mon.response.body.exhaustedModels IN
        /\ Listed = {c \in Codenames :
                        mon.store0[c].credit_status /\ ~ai_models[c].credit_status}
        /\ Len(list) = Cardinality(Listed)
        /\ \A k \in DOMAIN list :
              LET model == ai_models[list[k].codename] IN
              /\ OverLimit(model)
              /\ IF model.daily_limit > 0
                    /\ model.current_daily_usage >= model.daily_limit
                 THEN /\ list[k].reason = "Daily limit exceeded"
                      /\ list[k].usage = model.current_daily_usage
                      /\ list[k].limit = model.daily_limit
                 ELSE /\ list[k].reason = "Monthly limit exceeded"
                      /\ list[k].usage = model.current_monthly_usage
                      /\ list[k].limit = model.monthly_limit

\* one run lists a provider over both limits with the daily reason and one
\* over its monthly limit alone with the monthly reason, and leaves out a
\* provider that was disabled before and is still over its limit
C20_Witness ==
    /\ CheckDone
    /\ \E k \in DOMAIN mon.response.body.exhaustedModels :
          LET e == mon.response.body.exhaustedModels[k] IN
          /\ e.reason = "Daily limit exceeded"
          /\ monthlyExceeded(ai_models[e.codename].monthly_limit,
                             ai_models[e.codename].current_monthly_usage)
    /\ \E k \in DOMAIN mon.response.body.exhaustedModels :
          mon.response.body.exhaustedModels[k].reason = "Monthly limit exceeded"
    /\ \E c \in Codenames :
          /\ ~mon.store0[c].credit_status
          /\ OverLimit(ai_models[c])
          /\ c \notin Listed

====
